---------------------------- MODULE Spec2Model ----------------------------
(***************************************************************************)
(* Simple Knowledge Base: the collection store (VectorStoreService), the   *)
(* reranking service and the ingestion / query request flows that use them. *)
(* Requests run concurrently in the request slots of Procs; batch ingestion *)
(* runs detached from the request that queued it.                           *)
(***************************************************************************)
EXTENDS Integers, Sequences, FiniteSets, TLC

(* ---------------- bounds of the model ---------------- *)
\* total number of requests the clients issue in one behaviour
MaxOps == 3
\* number of batch jobs that can be queued in one behaviour
MaxJobs == 1
\* the reranker's scores are drawn from 0..MaxScore
MaxScore == 1
\* longest text given to the segmenter, in characters
MaxTextLen == 5
\* largest token budget given to the segmenter
MaxTokens == 2
MaxQueryLen == 3
MaxSent == 2
MaxBatches == 2
MaxInflight == 2
MaxFiles == 1
MaxCompletions == 2
\* requests of the frontend page in flight at once
MaxPending == 2

(* ---------------- program constants ---------------- *)
EMBEDDING_DIM == 768
KB_VECTOR_SEARCH_LIMIT == 20
MinTopK == 1
MaxTopK == 100

(* ---------------- input universes ---------------- *)
Procs == {1, 2}
Names == {"docs", "kb"}
\* strings a client can also send as the name of an index to create
InvalidNames == {"", "9x", "a b"}
CreateNames == Names \cup InvalidNames
Paths == {"a.md", "b.md", "gone.md"}
Dirs == {"dir", "nodir"}
Queries == {"q"}
TopKs == {MinTopK + 1, MaxTopK}
Scores == 0..MaxScore

\* the characters of a string, in order
Chars(str) ==
  CASE str = "docs" -> <<"d", "o", "c", "s">>
    [] str = "kb" -> <<"k", "b">>
    [] str = "9x" -> <<"9", "x">>
    [] str = "a b" -> <<"a", " ", "b">>
    [] str = "q" -> <<"q">>
    [] str = "a.md" -> <<"a", ".", "m", "d">>
    [] str = "A.MD" -> <<"A", ".", "M", "D">>
    [] str = "b.md" -> <<"b", ".", "m", "d">>
    [] str = "gone.md" -> <<"g", "o", "n", "e", ".", "m", "d">>
    [] str = "dir/a.md" -> <<"d", "i", "r", "/", "a", ".", "m", "d">>
    [] str = "dir/b.md" -> <<"d", "i", "r", "/", "b", ".", "m", "d">>
    [] str = "dir/bad.md" -> <<"d", "i", "r", "/", "b", "a", "d", ".", "m", "d">>
    [] OTHER -> <<>>

\* [a-zA-Z]
Letters ==
  {"a", "b", "c", "d", "e", "f", "g", "h", "i", "j", "k", "l", "m",
   "n", "o", "p", "q", "r", "s", "t", "u", "v", "w", "x", "y", "z",
   "A", "B", "C", "D", "E", "F", "G", "H", "I", "J", "K", "L", "M",
   "N", "O", "P", "Q", "R", "S", "T", "U", "V", "W", "X", "Y", "Z"}

\* [a-zA-Z0-9_-]
WordChars ==
  Letters \cup {"0", "1", "2", "3", "4", "5", "6", "7", "8", "9", "_", "-"}

\* [a-zA-Z0-9_-]*$ on the rest of the string
RECURSIVE MatchRest(_)
MatchRest(cs) ==
  cs = <<>> \/ (Head(cs) \in WordChars /\ MatchRest(Tail(cs)))

\* /^[a-zA-Z][a-zA-Z0-9_-]*$/.test(name)
INDEX_NAME_PATTERN(name) ==
  LET cs == Chars(name)
  IN cs # <<>> /\ Head(cs) \in Letters /\ MatchRest(Tail(cs))

\* longest index name a create request may carry
MAX_INDEX_NAME_LENGTH == 100

\* the top_k of every search the frontend sends
SEARCH_TOP_K == 5

\* CreateIndexRequest whose index_name field has no pattern
CreateIndexRequest_no_pattern(index_name) ==
  LET cs == Chars(index_name)
  IN Len(cs) >= 1 /\ Len(cs) <= MAX_INDEX_NAME_LENGTH

\* CreateIndexRequest: index_name has min_length 1, max_length 100 and the
\* pattern ^[a-zA-Z][a-zA-Z0-9_-]*$; TRUE when the request validates
CreateIndexRequest(index_name) ==
  LET cs == Chars(index_name)
  IN /\ Len(cs) >= 1 /\ Len(cs) <= MAX_INDEX_NAME_LENGTH
     /\ Head(cs) \in Letters /\ MatchRest(Tail(cs))

\* the document reader: the a.md and b.md files are readable, dir/bad.md is
\* not a text document, gone.md does not exist
read_document(path) ==
  CASE path \in {"a.md", "dir/a.md"} -> [err |-> "none", text |-> "A"]
    [] path \in {"b.md", "dir/b.md"} -> [err |-> "none", text |-> "B"]
    [] path = "dir/bad.md" -> [err |-> "InvalidDocument", text |-> ""]
    [] OTHER -> [err |-> "NotFound", text |-> ""]

\* the files of the directory "dir", in listing order
DirFiles == <<"dir/a.md", "dir/bad.md", "dir/b.md">>

\* the directory enumerator: the files of "dir" in listing order
list_files(dir) ==
  IF dir = "dir" THEN [err |-> "none", files |-> DirFiles]
  ELSE [err |-> "NotFound", files |-> <<>>]

\* ChunkingService.chunk: the chunks of a document text, in order
chunk(text) ==
  CASE text = "A" -> <<"a1", "a2">>
    [] text = "B" -> <<"b1">>
    [] OTHER -> <<>>

\* position of a text on the (one-dimensional) embedding axis of the model
EmbedVal(text) ==
  CASE text = "a1" -> 1
    [] text = "a2" -> 4
    [] text = "b1" -> 2
    [] OTHER -> 3

\* encode with a model of 384 dimensions loaded instead
encode_small_model(texts) ==
  [i \in 1..Len(texts) |-> [dim |-> 384, val |-> EmbedVal(texts[i])]]

\* EmbeddingService.encode: one vector per text, in order
encode(texts) ==
  [i \in 1..Len(texts) |-> [dim |-> EMBEDDING_DIM, val |-> EmbedVal(texts[i])]]

Abs(x) == IF x < 0 THEN 0 - x ELSE x

Min(a, b) == IF a <= b THEN a ELSE b

\* L2 distance between two embeddings
Distance(e1, e2) == Abs(e1.val - e2.val)

(* ---------------- Segmenter ---------------- *)
\* A text is a sequence of characters: a letter, a full stop, a space or a
\* newline.
SegChars == {"a", ".", " ", "\n"}

Whitespace == {" ", "\n"}

Texts == UNION {[1..n -> SegChars] : n \in 0..MaxTextLen}

Budgets == 1..MaxTokens

\* the tokenizer: every character that is not whitespace is one token
token_count(cs) == Cardinality({i \in 1..Len(cs) : cs[i] \notin Whitespace})

\* the separator levels, from the highest: paragraph (a blank line), line,
\* sentence (the space after a full stop), whitespace
Levels == <<"paragraph", "line", "sentence", "whitespace">>

\* position i of cs is separator whitespace of the level
IsBreak(cs, i, level) ==
  CASE level = "paragraph" ->
         /\ cs[i] = "\n"
         /\ \/ (i > 1 /\ cs[i - 1] = "\n")
            \/ (i < Len(cs) /\ cs[i + 1] = "\n")
    [] level = "line" -> cs[i] = "\n"
    [] level = "sentence" -> cs[i] = " " /\ i > 1 /\ cs[i - 1] = "."
    [] OTHER -> cs[i] \in Whitespace

\* the normalized separator units of a level are joined with
Sep(level) ==
  CASE level = "paragraph" -> <<"\n", "\n">>
    [] level = "line" -> <<"\n">>
    [] OTHER -> <<" ">>

\* the units of cs at a level from position i on, cur being the unit read so
\* far; units without any token are separator whitespace and are left out
RECURSIVE UnitsFrom(_, _, _, _)
UnitsFrom(cs, i, cur, level) ==
  LET done == IF token_count(cur) > 0 THEN <<cur>> ELSE <<>>
  IN IF i > Len(cs) THEN done
     ELSE IF IsBreak(cs, i, level)
          THEN done \o UnitsFrom(cs, i + 1, <<>>, level)
          ELSE UnitsFrom(cs, i + 1, Append(cur, cs[i]), level)

Units(cs, level) == UnitsFrom(cs, 1, <<>>, level)

\* the budget check of a merge that counts one token too few
Fits_off_by_one(cur, u, max_tokens) ==
  token_count(cur) + token_count(u) <= max_tokens + 1

\* the unit u can join the chunk cur within the budget
Fits(cur, u, max_tokens) ==
  token_count(cur) + token_count(u) <= max_tokens

\* a merge that keeps only the unit added last
Merge_keep_last(cur, u, level) == u

\* the chunk cur with the unit u merged in
Merge(cur, u, level) == cur \o Sep(level) \o u

\* the chunk being built, closed
Flush(cur) == IF cur = <<>> THEN <<>> ELSE <<cur>>

\* greedy packing of the units of a level into chunks: merge while the
\* budget allows; a unit over the budget is split at the next level, and at
\* the last level it is emitted whole
RECURSIVE Pack(_, _, _, _)
RECURSIVE segment(_, _, _)
Pack(units, cur, l, max_tokens) ==
  IF units = <<>> THEN Flush(cur)
  ELSE LET u == Head(units)
       IN IF cur # <<>> /\ Fits(cur, u, max_tokens)
          THEN Pack(Tail(units), Merge(cur, u, Levels[l]), l, max_tokens)
          ELSE IF token_count(u) <= max_tokens
          THEN Flush(cur) \o Pack(Tail(units), u, l, max_tokens)
          ELSE Flush(cur)
                 \o (IF l = Len(Levels) THEN <<u>> ELSE segment(u, l + 1, max_tokens))
                 \o Pack(Tail(units), <<>>, l, max_tokens)

\* the chunks of a text from separator level l down
segment(cs, l, max_tokens) == Pack(Units(cs, Levels[l]), <<>>, l, max_tokens)

\* the segmenter: the chunk texts of a text under a token budget, in order
chunk_text(cs, max_tokens) == segment(cs, 1, max_tokens)

(* ---------------- VectorStoreService ---------------- *)
\* The database d is a function from the names of its tables to the rows
\* of each table, in insertion order.

table_names(d) == DOMAIN d

\* index_exists that answers True for every name
index_exists_always(d, index_name) == TRUE

index_exists(d, index_name) == index_name \in table_names(d)

\* create_index with create_table(mode="overwrite"): an existing table is
\* replaced by an empty one
create_index_overwrite(d, index_name) ==
  [ret |-> TRUE,
   db |-> [n \in table_names(d) \cup {index_name} |->
             IF n = index_name THEN <<>> ELSE d[n]]]

\* create_index that creates the table from a placeholder row
create_index_seeded(d, index_name) ==
  IF index_name \in table_names(d)
  THEN [ret |-> FALSE, db |-> d]
  ELSE [ret |-> TRUE,
        db |-> [n \in table_names(d) \cup {index_name} |->
                  IF n = index_name
                  THEN <<[id |-> 0, content |-> "", source_document |-> "",
                          embedding |-> [dim |-> EMBEDDING_DIM, val |-> 0]]>>
                  ELSE d[n]]]

\* create_index: False when the name is taken, else a new empty table
create_index(d, index_name) ==
  IF index_name \in table_names(d)
  THEN [ret |-> FALSE, db |-> d]
  ELSE [ret |-> TRUE,
        db |-> [n \in table_names(d) \cup {index_name} |->
                  IF n = index_name THEN <<>> ELSE d[n]]]

\* records whose id is the position of the chunk in its document
NewRecords_position_ids(chunks, embeddings, source_document, first_id) ==
  [i \in 1..Min(Len(chunks), Len(embeddings)) |->
     [id |-> i,
      content |-> chunks[i],
      embedding |-> embeddings[i],
      source_document |-> source_document]]

\* the rows add_documents builds
NewRecords(chunks, embeddings, source_document, first_id) ==
  [i \in 1..Min(Len(chunks), Len(embeddings)) |->
     [id |-> first_id + i - 1,
      content |-> chunks[i],
      embedding |-> embeddings[i],
      source_document |-> source_document]]

\* add_documents with table.add(records, mode="overwrite"): the rows of the
\* table are replaced by the new ones
add_documents_overwrite(d, index_name, chunks, embeddings, source_document, first_id) ==
  IF index_name \notin table_names(d)
  THEN [err |-> "NotFound", ret |-> 0, db |-> d]
  ELSE LET records == NewRecords(chunks, embeddings, source_document, first_id)
       IN [err |-> "none", ret |-> Len(records),
           db |-> [d EXCEPT ![index_name] = records]]

\* add_documents that stores the rows one by one and stops after the first
\* when the batch has several
add_documents_partial(d, index_name, chunks, embeddings, source_document, first_id) ==
  IF index_name \notin table_names(d)
  THEN [err |-> "NotFound", ret |-> 0, db |-> d]
  ELSE LET records == NewRecords(chunks, embeddings, source_document, first_id)
       IN IF Len(records) > 1
          THEN [err |-> "StorageFailure", ret |-> 0,
                db |-> [d EXCEPT ![index_name] = d[index_name] \o <<records[1]>>]]
          ELSE [err |-> "none", ret |-> Len(records),
                db |-> [d EXCEPT ![index_name] = d[index_name] \o records]]

\* add_documents that returns the table's row count instead of len(records)
add_documents_table_count(d, index_name, chunks, embeddings, source_document, first_id) ==
  IF index_name \notin table_names(d)
  THEN [err |-> "NotFound", ret |-> 0, db |-> d]
  ELSE LET records == NewRecords(chunks, embeddings, source_document, first_id)
       IN [err |-> "none", ret |-> Len(d[index_name]) + Len(records),
           db |-> [d EXCEPT ![index_name] = d[index_name] \o records]]

\* add_documents that opens a fixed table of the database instead of the
\* one it was asked for
add_documents_first_table(d, index_name, chunks, embeddings, source_document, first_id) ==
  IF index_name \notin table_names(d)
  THEN [err |-> "NotFound", ret |-> 0, db |-> d]
  ELSE LET records == NewRecords(chunks, embeddings, source_document, first_id)
           first == CHOOSE n \in table_names(d) : TRUE
       IN [err |-> "none", ret |-> Len(records),
           db |-> [d EXCEPT ![first] = d[first] \o records]]

\* add_documents: one row per (chunk, embedding) pair, ids fresh from
\* first_id on; open_table raises when the table does not exist
add_documents(d, index_name, chunks, embeddings, source_document, first_id) ==
  IF index_name \notin table_names(d)
  THEN [err |-> "NotFound", ret |-> 0, db |-> d]
  ELSE LET records == NewRecords(chunks, embeddings, source_document, first_id)
       IN [err |-> "none", ret |-> Len(records),
           db |-> [d EXCEPT ![index_name] = d[index_name] \o records]]

\* rows sorted by ascending distance to the query, ties in insertion order
RECURSIVE InsertByDistance(_, _, _)
InsertByDistance(row, sorted, q) ==
  IF sorted = <<>> THEN <<row>>
  ELSE IF Distance(row.embedding, q) < Distance(Head(sorted).embedding, q)
       THEN <<row>> \o sorted
       ELSE <<Head(sorted)>> \o InsertByDistance(row, Tail(sorted), q)

RECURSIVE SortByDistance(_, _)
SortByDistance(rows, q) ==
  IF rows = <<>> THEN <<>>
  ELSE InsertByDistance(rows[Len(rows)],
                        SortByDistance(SubSeq(rows, 1, Len(rows) - 1), q), q)

\* search that swallows the open_table error and returns no rows
search_swallow(d, index_name, query_embedding, limit) ==
  IF index_name \notin table_names(d)
  THEN [err |-> "none", rows |-> <<>>]
  ELSE LET sorted == SortByDistance(d[index_name], query_embedding)
       IN [err |-> "none", rows |-> SubSeq(sorted, 1, Min(limit, Len(sorted)))]

\* search: the limit nearest rows; open_table raises when the table is missing
search(d, index_name, query_embedding, limit) ==
  IF index_name \notin table_names(d)
  THEN [err |-> "NotFound", rows |-> <<>>]
  ELSE LET sorted == SortByDistance(d[index_name], query_embedding)
       IN [err |-> "none", rows |-> SubSeq(sorted, 1, Min(limit, Len(sorted)))]

\* count of the rows of a table
count_rows(d, index_name) ==
  IF index_name \notin table_names(d)
  THEN [err |-> "NotFound", ret |-> 0]
  ELSE [err |-> "none", ret |-> Len(d[index_name])]

\* drop a table with all its rows
delete_index(d, index_name) ==
  IF index_name \notin table_names(d)
  THEN [err |-> "NotFound", db |-> d]
  ELSE [err |-> "none", db |-> [n \in table_names(d) \ {index_name} |-> d[n]]]

\* the names of the tables and their number
list_indexes(d) == [indexes |-> table_names(d), count |-> Cardinality(table_names(d))]

(* ---------------- RerankingService ---------------- *)
\* sorted(enumerate(scores), key=score, reverse=True): descending, stable
RECURSIVE InsertByScore(_, _)
InsertByScore(pair, sorted) ==
  IF sorted = <<>> THEN <<pair>>
  ELSE IF pair[2] > Head(sorted)[2]
       THEN <<pair>> \o sorted
       ELSE <<Head(sorted)>> \o InsertByScore(pair, Tail(sorted))

RECURSIVE SortByScore(_)
SortByScore(pairs) ==
  IF pairs = <<>> THEN <<>>
  ELSE InsertByScore(pairs[Len(pairs)], SortByScore(SubSeq(pairs, 1, Len(pairs) - 1)))

\* rerank without reverse=True: ascending score order
rerank_ascending(scores, top_k) ==
  LET ranked == SortByScore([i \in 1..Len(scores) |-> <<i, scores[i]>>])
      n == Len(ranked)
  IN SubSeq([i \in 1..n |-> ranked[n + 1 - i]], 1, Min(top_k, n))

\* rerank: scores[i] is the model's score of document i; the result is the
\* top_k (index, score) pairs in descending score order
rerank(scores, top_k) ==
  LET ranked == SortByScore([i \in 1..Len(scores) |-> <<i, scores[i]>>])
  IN SubSeq(ranked, 1, Min(top_k, Len(ranked)))

\* number of candidates the query flow asks the store for
candidate_limit(top_k) == KB_VECTOR_SEARCH_LIMIT

(* ---------------- state ---------------- *)
VARIABLES
  db,        \* the LanceDB database: table name -> rows
  req,       \* the request in flight in each slot
  resp,      \* the response sent last
  jobs,      \* the batch jobs queued so far
  nextId,    \* the next fresh record id
  ops,       \* number of requests issued so far
  gen,       \* history: how many times each name has been created
  returned,  \* history: sum of the chunk counts returned for each collection
             \* since it was created
  seg,       \* the segmenter: its input and the chunks it produced
  mcp,       \* the MCP server: whether it runs and its last tool result
  ui,        \* the frontend: the state of its components and what it sent
  add,       \* the AddKnowledge page, its polling closures and intervals, and
             \* the record count of the index they poll
  app        \* App and ManageIndexes: tabs, index count, the delete dialog

\* the state of the backend
backendVars == <<db, req, resp, jobs, nextId, ops, gen, returned>>

vars == <<db, req, resp, jobs, nextId, ops, gen, returned, seg, mcp, ui, add, app>>

\* a free request slot
Idle ==
  [pc |-> "idle", index |-> "", arg |-> "", top_k |-> 0, existed |-> FALSE,
   seen |-> 0, before |-> 0]

\* no response sent yet
NoResponse ==
  [op |-> "none", index |-> "", arg |-> "", top_k |-> 0,
   status |-> "", detail |-> "", count |-> 0, names |-> {}, results |-> <<>>,
   candidates |-> 0, limit |-> 0, work |-> {}, existed |-> FALSE, seen |-> 0,
   before |-> 0]

\* the backend after start-up: no index, no request
BackendInit ==
  /\ db = [n \in {} |-> <<>>]
  /\ req = [p \in Procs |-> Idle]
  /\ resp = NoResponse
  /\ jobs = <<>>
  /\ nextId = 1
  /\ ops = 0
  /\ gen = [n \in CreateNames |-> 0]
  /\ returned = [n \in CreateNames |-> 0]

\* the segmenter before any text is given to it
NoSeg == [text |-> <<>>, max_tokens |-> 0, chunks |-> <<>>, done |-> FALSE]

\* the MCP server after start-up, before any tool call
\* (tool .. total: the last tool call and its result; status, json: the HTTP
\* answer that reached it, status 0 when none did; held: the ids of the rows of
\* the requested document in the index; got: the ids in the result; failed:
\* some earlier call met a backend failure; asked, results, chunks: the
\* document kb_fetch_doc was asked for, the results the backend returned to
\* it and the chunks it returned)
McpStart ==
  [alive |-> TRUE, tool |-> "none", isError |-> FALSE, text |-> "", message |-> "",
   status |-> 200, json |-> TRUE, top_k |-> 0, held |-> {}, got |-> {}, total |-> 0,
   failed |-> FALSE, asked |-> "", results |-> <<>>, chunks |-> <<>>]

\* the frontend after it is loaded
\* (request: the last /query request sent, typed being the content of the
\* input when it went out; sends: the number of requests sent)
NoRequest == [query |-> <<>>, index_name |-> "", top_k |-> 0, typed |-> <<>>]

\* no notification shown
NoNotification == [type |-> "none", header |-> "", content |-> ""]

\* (results, searchTimeMs, notification: what App shows; settles: the number
\* of requests that settled; outcome: how the last one settled)
UiStart ==
  [query |-> <<>>, selectedIndex |-> "null", isLoading |-> FALSE,
   request |-> NoRequest, sends |-> 0,
   results |-> <<>>, searchTimeMs |-> "null", notification |-> NoNotification,
   settles |-> 0, outcome |-> [kind |-> "none", message |-> ""]]

\* the batches AddKnowledge starts, in the order it starts them; the
\* interval a batch creates carries its number
Ingestions == 1..MaxBatches

\* the variables of the closure of one handleEncodeBatch call (inflight:
\* interval callbacks awaiting their poll; completes: the completion
\* notifications issued; late: a poll result was processed after the first)
NoClosure ==
  [state |-> "none", index |-> "", initialCount |-> 0, lastCount |-> 0,
   stablePolls |-> 0, inflight |-> 0, completes |-> 0, late |-> FALSE]

\* an interval: whether it runs, and the ingestion whose completion cleared
\* it (0: none), or the unmount
NoInterval == [active |-> FALSE, clearedBy |-> 0, unmount |-> FALSE]

\* preProcessRecordCount when it is null
NullCount == -1

\* AddKnowledge after it is mounted with the index "docs", still empty, preselected (count: the records of
\* the index in the backend; work: the chunk counts of the files its
\* background tasks still have to process)
AddStart ==
  [mounted |-> TRUE, selectedIndex |-> "docs", directoryPath |-> "",
   preProcessRecordCount |-> NullCount,
   showBatchConfirmModal |-> FALSE, isEncodingBatch |-> FALSE,
   pollingIntervalRef |-> 0, started |-> 0,
   closures |-> [j \in Ingestions |-> NoClosure],
   intervals |-> [j \in Ingestions |-> NoInterval],
   count |-> 0, work |-> <<>>]

\* App and ManageIndexes after the first render
\* no request of ManageIndexes awaits its response; mounted tells whether the
\* component that sent a request is still the one on the page
NoCall == [index |-> "", mounted |-> TRUE]

\* App and the ManageIndexes of its first tab as they mount; refreshes are the
\* listIndexes() calls of App that have not settled, refreshFailed tells that
\* the last one to settle failed, countedIndex is the index whose record
\* count the open dialog shows
AppStart ==
  [isHealthy |-> "unknown", activeTab |-> "manage-indexes", indexCount |-> 0,
   refreshes |-> <<>>, refreshFailed |-> FALSE,
   actionMode |-> "create", isCreatingIndex |-> FALSE, createdIndexName |-> "",
   selectedIndex |-> "", isDeletingIndex |-> FALSE,
   showDeleteConfirmModal |-> FALSE, deleteIndexRecordCount |-> NullCount,
   countedIndex |-> "",
   creating |-> NoCall, confirming |-> NoCall, deleting |-> NoCall]

Init ==
  /\ BackendInit
  /\ seg = NoSeg
  /\ mcp = McpStart
  /\ ui = UiStart
  /\ add = AddStart
  /\ app = AppStart

\* a client can issue a request in slot p: a new request takes the first
\* free slot
Free(p) ==
  /\ req[p].pc = "idle" /\ ops < MaxOps
  /\ \A q \in Procs : q < p => req[q].pc # "idle"

\* the response to a request on an index that answers in one step; existed
\* and seen are history: whether the index existed when the request checked
\* for it, and its creation count then
Response(p, op, index, arg, status, detail) ==
  [NoResponse EXCEPT !.op = op, !.index = index, !.arg = arg,
                     !.status = status, !.detail = detail,
                     !.existed = index \in DOMAIN db, !.seen = gen[index],
                     !.before = IF index \in DOMAIN db THEN Len(db[index]) ELSE 0]

\* a request that passed its existence check and is now in flight
InFlight(pc, index, arg, top_k) ==
  [pc |-> pc, index |-> index, arg |-> arg, top_k |-> top_k,
   existed |-> index \in DOMAIN db, seen |-> gen[index],
   before |-> IF index \in DOMAIN db THEN Len(db[index]) ELSE 0]

(* ---------------- index management requests ---------------- *)
\* POST /create: the request is validated, then the index is created
CreateIndex(p, n) ==
  /\ Free(p)
  /\ IF ~CreateIndexRequest(n)
     THEN /\ resp' = Response(p, "create", n, "", "InvalidName", "index_name")
          /\ UNCHANGED <<db, gen, returned>>
     ELSE LET r == create_index(db, n)
          IN /\ db' = r.db
             /\ resp' = Response(p, "create", n, "", IF r.ret THEN "created" ELSE "Conflict", "index")
             /\ gen' = IF r.ret THEN [gen EXCEPT ![n] = @ + 1] ELSE gen
             /\ returned' = IF r.ret THEN [returned EXCEPT ![n] = 0] ELSE returned
  /\ ops' = ops + 1
  /\ UNCHANGED <<req, jobs, nextId>>
  /\ UNCHANGED <<seg, mcp, ui, add, app>>

\* ManageIndexes.handleCreateIndex with name typed into the form: nothing is
\* sent for an empty or non-matching name, else the create request goes out
handleCreateIndex(p, newIndexName) ==
  IF newIndexName = "" \/ ~INDEX_NAME_PATTERN(newIndexName)
  THEN /\ Free(p)
       /\ resp' = [NoResponse EXCEPT !.op = "handleCreateIndex",
                                     !.index = newIndexName, !.status = "not_sent"]
       /\ ops' = ops + 1
       /\ UNCHANGED <<db, req, jobs, nextId, gen, returned>>
       /\ UNCHANGED <<seg, mcp, ui, add, app>>
  ELSE CreateIndex(p, newIndexName)

\* DELETE /indexes/{index_name}
DeleteIndex(p, n) ==
  /\ Free(p)
  /\ LET r == delete_index(db, n)
     IN /\ db' = r.db
        /\ resp' = Response(p, "delete", n, "", IF r.err = "none" THEN "deleted" ELSE r.err, "index")
  /\ ops' = ops + 1
  /\ UNCHANGED <<req, jobs, nextId, gen, returned>>
  /\ UNCHANGED <<seg, mcp, ui, add, app>>

\* GET /indexes/{index_name}/count
IndexRecordCount(p, n) ==
  /\ Free(p)
  /\ LET r == count_rows(db, n)
     IN resp' = [Response(p, "count", n, "", IF r.err = "none" THEN "success" ELSE r.err, "index")
                   EXCEPT !.count = r.ret]
  /\ ops' = ops + 1
  /\ UNCHANGED <<db, req, jobs, nextId, gen, returned>>
  /\ UNCHANGED <<seg, mcp, ui, add, app>>

\* GET /indexes
ListIndexes(p) ==
  /\ Free(p)
  /\ resp' = [NoResponse EXCEPT !.op = "list", !.status = "success",
                                !.names = list_indexes(db).indexes,
                                !.count = list_indexes(db).count]
  /\ ops' = ops + 1
  /\ UNCHANGED <<db, req, jobs, nextId, gen, returned>>
  /\ UNCHANGED <<seg, mcp, ui, add, app>>

(* ---------------- single-document ingestion ---------------- *)
\* POST /encode_doc, first step: the target index must exist
EncodeDocCheck(p, path, n) ==
  /\ Free(p)
  /\ IF index_exists(db, n)
     THEN /\ req' = [req EXCEPT ![p] = InFlight("ingest", n, path, 0)]
          /\ resp' = resp
     ELSE /\ req' = req
          /\ resp' = Response(p, "encode_doc", n, path, "NotFound", "index")
  /\ ops' = ops + 1
  /\ UNCHANGED <<db, jobs, nextId, gen, returned>>
  /\ UNCHANGED <<seg, mcp, ui, add, app>>

\* the single-document flow after the existence check: read, chunk, embed
\* all chunks in one call, store.add; the outcome with the new database
IngestDocument(d, n, path, first_id) ==
  LET doc == read_document(path)
      chunks == chunk(doc.text)
      embeddings == encode(chunks)
      added == add_documents(d, n, chunks, embeddings, path, first_id)
  IN IF doc.err # "none"
     THEN [status |-> doc.err, detail |-> "document", chunk_count |-> 0,
           db |-> d, work |-> {"read"}]
     ELSE IF added.err # "none"
          THEN [status |-> added.err, detail |-> "index", chunk_count |-> 0,
                db |-> added.db, work |-> {"read", "embed"}]
          ELSE [status |-> "success", detail |-> "", chunk_count |-> added.ret,
                db |-> added.db, work |-> {"read", "embed", "write"}]

\* POST /encode_doc, second step: read, chunk, embed and store the document
EncodeDocIngest(p) ==
  /\ req[p].pc = "ingest"
  /\ LET n == req[p].index
         r == IngestDocument(db, n, req[p].arg, nextId)
     IN /\ db' = r.db
        /\ resp' = [NoResponse EXCEPT !.op = "encode_doc", !.index = n,
                                      !.arg = req[p].arg, !.status = r.status,
                                      !.detail = r.detail, !.count = r.chunk_count,
                                      !.work = r.work, !.existed = req[p].existed,
                                      !.seen = req[p].seen, !.before = req[p].before]
        /\ nextId' = nextId + r.chunk_count
        /\ returned' = [returned EXCEPT ![n] = @ + r.chunk_count]
  /\ req' = [req EXCEPT ![p] = Idle]
  /\ UNCHANGED <<jobs, ops, gen>>
  /\ UNCHANGED <<seg, mcp, ui, add, app>>

(* ---------------- batch ingestion ---------------- *)
\* encode_batch that reports only the files it could read as queued
EncodeBatch_readable_only(p, dir, n) ==
  /\ Free(p)
  /\ Len(jobs) < MaxJobs
  /\ LET listing == list_files(dir)
         readable == Cardinality({i \in 1..Len(listing.files) :
                                    read_document(listing.files[i]).err = "none"})
     IN IF ~index_exists(db, n)
        THEN /\ resp' = Response(p, "encode_batch", n, dir, "NotFound", "index")
             /\ jobs' = jobs
        ELSE IF listing.err # "none"
        THEN /\ resp' = [Response(p, "encode_batch", n, dir, listing.err, "directory")
                           EXCEPT !.work = {"list"}]
             /\ jobs' = jobs
        ELSE /\ resp' = [Response(p, "encode_batch", n, dir, "accepted", "")
                           EXCEPT !.count = readable, !.work = {"list"}]
             /\ jobs' = Append(jobs, [index |-> n, queue |-> listing.files,
                                      queued |-> Len(listing.files),
                                      seen |-> gen[n], succeeded |-> 0,
                                      failed |-> 0, chunks |-> 0])
  /\ ops' = ops + 1
  /\ UNCHANGED <<db, req, nextId, gen, returned>>
  /\ UNCHANGED <<seg, mcp, ui, add, app>>

\* POST /encode_batch: index and directory must exist; the files found are
\* queued for background processing and the accepted response is returned
EncodeBatch(p, dir, n) ==
  /\ Free(p)
  /\ Len(jobs) < MaxJobs
  /\ LET listing == list_files(dir)
     IN IF ~index_exists(db, n)
        THEN /\ resp' = Response(p, "encode_batch", n, dir, "NotFound", "index")
             /\ jobs' = jobs
        ELSE IF listing.err # "none"
        THEN /\ resp' = [Response(p, "encode_batch", n, dir, listing.err, "directory")
                           EXCEPT !.work = {"list"}]
             /\ jobs' = jobs
        ELSE /\ resp' = [Response(p, "encode_batch", n, dir, "accepted", "")
                           EXCEPT !.count = Len(listing.files), !.work = {"list"}]
             /\ jobs' = Append(jobs, [index |-> n, queue |-> listing.files,
                                      queued |-> Len(listing.files),
                                      seen |-> gen[n], succeeded |-> 0,
                                      failed |-> 0, chunks |-> 0])
  /\ ops' = ops + 1
  /\ UNCHANGED <<db, req, nextId, gen, returned>>
  /\ UNCHANGED <<seg, mcp, ui, add, app>>

\* background task: the single-document flow for the next queued file; a
\* failure is counted and the remaining files are still processed
BatchProcessNext(j) ==
  /\ j \in 1..Len(jobs)
  /\ jobs[j].queue # <<>>
  /\ LET n == jobs[j].index
         r == IF index_exists(db, n)
              THEN IngestDocument(db, n, Head(jobs[j].queue), nextId)
              ELSE [status |-> "NotFound", detail |-> "index", chunk_count |-> 0,
                    db |-> db, work |-> {}]
         ok == r.status = "success"
     IN /\ db' = r.db
        /\ jobs' = [jobs EXCEPT ![j].queue = Tail(@),
                                ![j].succeeded = IF ok THEN @ + 1 ELSE @,
                                ![j].failed = IF ok THEN @ ELSE @ + 1,
                                ![j].chunks = @ + r.chunk_count]
        /\ nextId' = nextId + r.chunk_count
        /\ returned' = [returned EXCEPT ![n] = @ + r.chunk_count]
  /\ UNCHANGED <<req, resp, ops, gen>>
  /\ UNCHANGED <<seg, mcp, ui, add, app>>

(* ---------------- query ---------------- *)
\* POST /query, first step: the target index must exist
QueryCheck(p, q, n, k) ==
  /\ Free(p)
  /\ IF index_exists(db, n)
     THEN /\ req' = [req EXCEPT ![p] = InFlight("search", n, q, k)]
          /\ resp' = resp
     ELSE /\ req' = req
          /\ resp' = [Response(p, "query", n, q, "NotFound", "index") EXCEPT !.top_k = k]
  /\ ops' = ops + 1
  /\ UNCHANGED <<db, jobs, nextId, gen, returned>>
  /\ UNCHANGED <<seg, mcp, ui, add, app>>

\* the candidates of a query: embed the query, search the index
Candidates(d, n, q, k) == search(d, n, encode(<<q>>)[1], candidate_limit(k))

\* the cross-encoder models, as far as a list of documents can tell them
\* apart: a score for each document text under the query
Models(documents) ==
  [{documents[i].content : i \in 1..Len(documents)} -> Scores]

\* model.predict(pairs): the score of each (query, document) pair, in order
predict(model, documents) ==
  [i \in 1..Len(documents) |-> model[documents[i].content]]

\* the query flow without the short-circuit on zero candidates
RunQuery_always_rerank(d, n, q, k, model) ==
  LET found == Candidates(d, n, q, k)
      ranked == rerank(predict(model, found.rows), k)
  IN IF found.err # "none"
     THEN [status |-> found.err, detail |-> "index", results |-> <<>>,
           candidates |-> 0, work |-> {"embed"}]
     ELSE [status |-> "success", detail |-> "",
           results |-> [i \in 1..Len(ranked) |->
                          [id |-> found.rows[ranked[i][1]].id,
                           content |-> found.rows[ranked[i][1]].content,
                           relevance_score |-> ranked[i][2],
                           source_document |-> found.rows[ranked[i][1]].source_document]],
           candidates |-> Len(found.rows), work |-> {"embed", "rerank"}]

\* the query flow after the existence check, for a reranker model: embed,
\* search, rerank, truncate, map
RunQuery(d, n, q, k, model) ==
  LET found == Candidates(d, n, q, k)
      ranked == rerank(predict(model, found.rows), k)
  IN IF found.err # "none"
     THEN [status |-> found.err, detail |-> "index", results |-> <<>>,
           candidates |-> 0, work |-> {"embed"}]
     ELSE IF found.rows = <<>>
          THEN [status |-> "success", detail |-> "", results |-> <<>>,
                candidates |-> 0, work |-> {"embed"}]
          ELSE [status |-> "success", detail |-> "",
                results |-> [i \in 1..Len(ranked) |->
                               [id |-> found.rows[ranked[i][1]].id,
                                content |-> found.rows[ranked[i][1]].content,
                                relevance_score |-> ranked[i][2],
                                source_document |-> found.rows[ranked[i][1]].source_document]],
                candidates |-> Len(found.rows), work |-> {"embed", "rerank"}]

\* POST /query, second step: embed, search, rerank
QuerySearch(p) ==
  /\ req[p].pc = "search"
  /\ \E model \in Models(Candidates(db, req[p].index, req[p].arg, req[p].top_k).rows) :
       LET r == RunQuery(db, req[p].index, req[p].arg, req[p].top_k, model)
       IN resp' = [NoResponse EXCEPT !.op = "query", !.index = req[p].index,
                                     !.arg = req[p].arg, !.top_k = req[p].top_k,
                                     !.status = r.status, !.detail = r.detail,
                                     !.results = r.results, !.candidates = r.candidates,
                                     !.limit = candidate_limit(req[p].top_k),
                                     !.work = r.work, !.existed = req[p].existed,
                                     !.seen = req[p].seen, !.before = req[p].before]
  /\ req' = [req EXCEPT ![p] = Idle]
  /\ UNCHANGED <<db, jobs, nextId, ops, gen, returned>>
  /\ UNCHANGED <<seg, mcp, ui, add, app>>

Next ==
  \/ \E p \in Procs, n \in CreateNames : CreateIndex(p, n)
  \/ \E p \in Procs, n \in CreateNames : handleCreateIndex(p, n)
  \/ \E p \in Procs, n \in Names : DeleteIndex(p, n)
  \/ \E p \in Procs, n \in Names : IndexRecordCount(p, n)
  \/ \E p \in Procs : ListIndexes(p)
  \/ \E p \in Procs, path \in Paths, n \in Names : EncodeDocCheck(p, path, n)
  \/ \E p \in Procs : EncodeDocIngest(p)
  \/ \E p \in Procs, dir \in Dirs, n \in Names : EncodeBatch(p, dir, n)
  \/ \E j \in 1..MaxJobs : BatchProcessNext(j)
  \/ \E p \in Procs, q \in Queries, n \in Names, k \in TopKs : QueryCheck(p, q, n, k)
  \/ \E p \in Procs : QuerySearch(p)

\* the background task of a queued batch keeps running until its queue is empty
Fairness == \A j \in 1..MaxJobs : WF_vars(BatchProcessNext(j))

FairSpec == Init /\ [][Next]_vars /\ Fairness

Spec == Init /\ [][Next]_vars

(* ---------------- MCP server ---------------- *)
\* what can go wrong between the MCP server and the backend: nothing, the
\* connection fails, a gateway answers 502 with a body that is not JSON, the
\* backend answers 500 with a JSON body without detail or message, or a 200
\* whose body is not JSON
Faults == {"none", "network_error", "bad_gateway", "no_detail", "ok_not_json"}

\* the documents a client asks kb_fetch_doc for
FetchDocs == {"dir/a.md", "A.MD", ""}

\* the top_k values a client passes to the tools; 10 is kb_fetch_doc's default
McpTopKs == {2, 10}

UpperCase ==
  <<"A", "B", "C", "D", "E", "F", "G", "H", "I", "J", "K", "L", "M",
    "N", "O", "P", "Q", "R", "S", "T", "U", "V", "W", "X", "Y", "Z">>

LowerCase ==
  <<"a", "b", "c", "d", "e", "f", "g", "h", "i", "j", "k", "l", "m",
    "n", "o", "p", "q", "r", "s", "t", "u", "v", "w", "x", "y", "z">>

\* String.prototype.toLowerCase on the characters of a string
\* the lower-case letter of each upper-case letter
LowerOf ==
  [c \in {UpperCase[k] : k \in 1..Len(UpperCase)} |->
     LowerCase[CHOOSE k \in 1..Len(UpperCase) : UpperCase[k] = c]]

toLowerCase(cs) ==
  [i \in 1..Len(cs) |-> IF cs[i] \in DOMAIN LowerOf THEN LowerOf[cs[i]] ELSE cs[i]]

\* String.prototype.includes: needle occurs in hay
includes(hay, needle) ==
  \E i \in 0..(Len(hay) - Len(needle)) :
    SubSeq(hay, i + 1, i + Len(needle)) = needle

\* QueryRequest: query and index_name have min_length 1, top_k is in 1..100
QueryRequestValid(request) ==
  /\ Len(Chars(request.query)) >= 1
  /\ request.index_name # ""
  /\ request.top_k >= MinTopK /\ request.top_k <= MaxTopK

\* the HTTP response of the backend to POST /query on database d, for the
\* reranker model in use
QueryEndpoint(d, request, model) ==
  IF ~QueryRequestValid(request)
  THEN [ok |-> FALSE, status |-> 422, json |-> TRUE,
        detail |-> "validation", message |-> "", results |-> <<>>]
  ELSE IF ~index_exists(d, request.index_name)
  THEN [ok |-> FALSE, status |-> 404, json |-> TRUE,
        detail |-> "index not found", message |-> "", results |-> <<>>]
  ELSE [ok |-> TRUE, status |-> 200, json |-> TRUE, detail |-> "", message |-> "",
        results |-> RunQuery(d, request.index_name, request.query,
                             request.top_k, model).results]

\* the HTTP response of the backend to GET /indexes
IndexesEndpoint(d) ==
  [ok |-> TRUE, status |-> 200, json |-> TRUE, detail |-> "", message |-> "",
   results |-> list_indexes(d)]

\* fetch: the response that reaches the client under a fault, or a rejection
fetch(response, fault) ==
  LET body(ok, status, json) ==
        [ok |-> ok, status |-> status, json |-> json, detail |-> "", message |-> "",
         results |-> <<>>]
  IN CASE fault = "network_error" ->
            [rejected |-> TRUE, message |-> "fetch failed", response |-> body(FALSE, 0, FALSE)]
       [] fault = "bad_gateway" ->
            [rejected |-> FALSE, message |-> "", response |-> body(FALSE, 502, FALSE)]
       [] fault = "no_detail" ->
            [rejected |-> FALSE, message |-> "", response |-> body(FALSE, 500, TRUE)]
       [] fault = "ok_not_json" ->
            [rejected |-> FALSE, message |-> "", response |-> body(TRUE, 200, FALSE)]
       [] OTHER -> [rejected |-> FALSE, message |-> "", response |-> response]

\* handleResponse: the parsed body of a 2xx response; otherwise an Error with
\* the body's detail, else its message, else "HTTP error: <status>", the body
\* being {detail: "Unknown error"} when it does not parse
handleResponse(response) ==
  IF ~response.ok
  THEN LET error == IF response.json
                    THEN [detail |-> response.detail, message |-> response.message]
                    ELSE [detail |-> "Unknown error", message |-> ""]
       IN [threw |-> TRUE,
           message |-> IF error.detail # "" THEN error.detail
                       ELSE IF error.message # "" THEN error.message
                       ELSE "HTTP error",
           value |-> <<>>]
  ELSE IF ~response.json
  THEN [threw |-> TRUE, message |-> "SyntaxError", value |-> <<>>]
  ELSE [threw |-> FALSE, message |-> "", value |-> response.results]

\* an awaited fetch followed by handleResponse (status, json: the HTTP
\* answer that came, status 0 when none did)
Request(response, fault) ==
  LET f == fetch(response, fault)
      r == handleResponse(f.response)
  IN IF f.rejected
     THEN [threw |-> TRUE, message |-> f.message, value |-> <<>>,
           status |-> 0, json |-> FALSE]
     ELSE [threw |-> r.threw, message |-> r.message, value |-> r.value,
           status |-> f.response.status, json |-> f.response.json]

\* queryKnowledgeBase: POST /query
queryKnowledgeBase(d, request, fault, model) ==
  Request(QueryEndpoint(d, request, model), fault)

\* listIndexes: GET /indexes
listIndexes(d, fault) == Request(IndexesEndpoint(d), fault)

\* kbSearchDocs from its await on, response being what queryKnowledgeBase
\* gave: the results of the query and their number
kbSearchDocs(response) ==
  IF response.threw THEN response
  ELSE [threw |-> FALSE, message |-> "",
        value |-> [results |-> response.value,
                   total_results |-> Len(response.value)]]

\* kbFetchDoc returning every result of the query, without the filter
kbFetchDoc_no_filter(response, sourceDocument) ==
  LET matchingChunks == response.value
  IN IF response.threw THEN response
     ELSE [threw |-> FALSE, message |-> "",
           value |-> [chunks |-> matchingChunks,
                      total_chunks |-> Len(matchingChunks)]]

\* kbFetchDoc from its await on, response being what queryKnowledgeBase gave
\* for the document name as query text: the results whose source_document
\* contains the name, case-insensitively
kbFetchDoc(response, sourceDocument) ==
  LET matchingChunks ==
        SelectSeq(response.value,
                  LAMBDA r : includes(toLowerCase(Chars(r.source_document)),
                                      toLowerCase(Chars(sourceDocument))))
  IN IF response.threw THEN response
     ELSE [threw |-> FALSE, message |-> "",
           value |-> [chunks |-> matchingChunks,
                      total_chunks |-> Len(matchingChunks)]]

\* kbListIndexes from its await on, response being what listIndexes gave:
\* the names of the indexes and their number
kbListIndexes(response) ==
  IF response.threw THEN response
  ELSE [threw |-> FALSE, message |-> "", value |-> response.value]

\* a tool handler without its catch: the rejection leaves the handler
ToolResult_no_catch(outcome, label) ==
  IF outcome.threw
  THEN [escaped |-> TRUE, isError |-> FALSE, text |-> "", value |-> <<>>,
        message |-> outcome.message]
  ELSE [escaped |-> FALSE, isError |-> FALSE, text |-> "result", value |-> outcome.value,
        message |-> ""]

\* the try / catch of a registered tool handler around its tool function:
\* the result as text, or isError with the label and String(error)
ToolResult(outcome, label) ==
  IF outcome.threw
  THEN [escaped |-> FALSE, isError |-> TRUE, text |-> label, value |-> <<>>,
        message |-> outcome.message]
  ELSE [escaped |-> FALSE, isError |-> FALSE, text |-> "result", value |-> outcome.value,
        message |-> ""]

\* the ids of the rows of index n whose source_document is doc
RowsOf(d, n, doc) ==
  IF n \in table_names(d)
  THEN {d[n][i].id : i \in {j \in 1..Len(d[n]) : d[n][j].source_document = doc}}
  ELSE {}

\* the ids of a list of results
Ids(results) == {results[i].id : i \in 1..Len(results)}

\* what the record of a fetch keeps of each result: which chunk it is and the
\* document it comes from
Origins(results) ==
  [i \in 1..Len(results) |->
     [id |-> results[i].id, source_document |-> results[i].source_document]]

\* the reranker models a tool call can tell apart: under a fault the results
\* of the query never reach the MCP server, and one model stands for all
ModelsSeen(d, request, fault) ==
  IF fault = "none"
  THEN Models(Candidates(d, request.index_name, request.query, request.top_k).rows)
  ELSE Models(<<>>)

\* the server after a tool call answered with result r, response being what
\* the API client gave; a rejection that leaves the handler ends the process
\* (unhandledRejection, process.exit(1))
Answered(tool, r, response, top_k, held, got, total) ==
  [alive |-> ~r.escaped, tool |-> tool, isError |-> r.isError, text |-> r.text,
   message |-> r.message,
   status |-> response.status,
   json |-> response.json,
   top_k |-> top_k, held |-> held, got |-> got, total |-> total,
   failed |-> mcp.failed \/ mcp.isError \/ ~mcp.alive,
   asked |-> "", results |-> <<>>, chunks |-> <<>>]

\* tool kb_list_indexes
kb_list_indexes(fault) ==
  /\ mcp.alive
  /\ ops < MaxOps
  /\ LET response == listIndexes(db, fault)
         r == ToolResult(kbListIndexes(response), "Failed to list indexes")
     IN mcp' = Answered("kb_list_indexes", r, response, 0, {}, {},
                        IF r.isError \/ r.escaped THEN 0 ELSE r.value.count)
  /\ ops' = ops + 1
  /\ UNCHANGED <<db, req, resp, jobs, nextId, gen, returned, seg, ui, add, app>>

\* tool kb_search_docs(query, index_name, top_k)
kb_search_docs(query, index_name, top_k, fault) ==
  /\ mcp.alive
  /\ ops < MaxOps
  /\ \E model \in ModelsSeen(db, [query |-> query, index_name |-> index_name,
                                   top_k |-> top_k], fault) :
       LET request == [query |-> query, index_name |-> index_name, top_k |-> top_k]
           response == queryKnowledgeBase(db, request, fault, model)
           r == ToolResult(kbSearchDocs(response), "Search failed")
           ok == ~r.isError /\ ~r.escaped
       IN mcp' = Answered("kb_search_docs", r, response, top_k, {},
                          IF ok THEN Ids(r.value.results) ELSE {},
                          IF ok THEN r.value.total_results ELSE 0)
  /\ ops' = ops + 1
  /\ UNCHANGED <<db, req, resp, jobs, nextId, gen, returned, seg, ui, add, app>>

\* tool kb_fetch_doc(index_name, source_document, top_k)
kb_fetch_doc(index_name, source_document, top_k, fault) ==
  /\ mcp.alive
  /\ ops < MaxOps
  /\ \E model \in ModelsSeen(db, [query |-> source_document, index_name |-> index_name,
                                   top_k |-> top_k], fault) :
       LET request == [query |-> source_document, index_name |-> index_name,
                       top_k |-> top_k]
           response == queryKnowledgeBase(db, request, fault, model)
           r == ToolResult(kbFetchDoc(response, source_document), "Fetch failed")
           ok == ~r.isError /\ ~r.escaped
       IN mcp' = [Answered("kb_fetch_doc", r, response, top_k,
                           RowsOf(db, index_name, source_document),
                           IF ok THEN Ids(r.value.chunks) ELSE {},
                           IF ok THEN r.value.total_chunks ELSE 0)
                    EXCEPT !.asked = source_document,
                           !.results = IF ok THEN Origins(response.value) ELSE <<>>,
                           !.chunks = IF ok THEN Origins(r.value.chunks) ELSE <<>>]
  /\ ops' = ops + 1
  /\ UNCHANGED <<db, req, resp, jobs, nextId, gen, returned, seg, ui, add, app>>

\* the MCP server in front of a backend that indexes are created and filled in
McpNext ==
  \/ \E p \in Procs, n \in Names : CreateIndex(p, n)
  \/ \E p \in Procs, dir \in Dirs, n \in Names : EncodeBatch(p, dir, n)
  \/ \E j \in 1..MaxJobs : BatchProcessNext(j)
  \/ \E fault \in Faults : kb_list_indexes(fault)
  \/ \E q \in Queries, n \in Names, k \in McpTopKs, fault \in Faults :
       kb_search_docs(q, n, k, fault)
  \/ \E n \in Names, doc \in FetchDocs, k \in McpTopKs, fault \in Faults :
       kb_fetch_doc(n, doc, k, fault)

McpSpec == Init /\ [][McpNext]_vars

(* ---------------- frontend search ---------------- *)
\* what a user can have in the search input
QueryChars == {"q", " "}

QueryTexts == UNION {[1..n -> QueryChars] : n \in 0..MaxQueryLen}

\* String.prototype.trimStart
RECURSIVE trimStart(_)
trimStart(cs) ==
  IF cs # <<>> /\ Head(cs) \in Whitespace THEN trimStart(Tail(cs)) ELSE cs

\* String.prototype.trimEnd
RECURSIVE trimEnd(_)
trimEnd(cs) ==
  IF cs # <<>> /\ cs[Len(cs)] \in Whitespace
  THEN trimEnd(SubSeq(cs, 1, Len(cs) - 1))
  ELSE cs

\* String.prototype.trim
trim(cs) == trimEnd(trimStart(cs))

\* canSearch without the trim of the query
canSearch_no_trim ==
  ui.query # <<>> /\ ui.selectedIndex \notin {"null", ""}

\* SearchInterface.canSearch: query.trim() && selectedIndex
canSearch ==
  trim(ui.query) # <<>> /\ ui.selectedIndex \notin {"null", ""}

\* App.handleSearch(query, indexName): the loading flag is set and the
\* request goes out
\* handleSearch without setResults([]) before the request
handleSearch_keep_results(query, indexName) ==
  /\ ui.sends < MaxSent
  /\ ui' = [ui EXCEPT !.isLoading = TRUE,
                       !.searchTimeMs = "null",
                       !.request = [query |-> query, index_name |-> indexName,
                                    top_k |-> SEARCH_TOP_K, typed |-> ui.query],
                       !.sends = @ + 1]
  /\ UNCHANGED <<backendVars, seg, mcp, add, app>>

handleSearch(query, indexName) ==
  /\ ui.sends < MaxSent
  /\ ui' = [ui EXCEPT !.isLoading = TRUE,
                       !.results = <<>>,
                       !.searchTimeMs = "null",
                       !.request = [query |-> query, index_name |-> indexName,
                                    top_k |-> SEARCH_TOP_K, typed |-> ui.query],
                       !.sends = @ + 1]
  /\ UNCHANGED <<backendVars, seg, mcp, add, app>>

\* SearchInterface.handleSubmit
handleSubmit ==
  /\ canSearch
  /\ handleSearch(trim(ui.query), ui.selectedIndex)

\* a click on the Search button, disabled while !canSearch || isLoading
ClickSearch ==
  /\ ~(~canSearch \/ ui.isLoading)
  /\ handleSubmit

\* SearchInterface.handleKeyDown for a key pressed in the input, which is
\* disabled while isLoading || !selectedIndex
handleKeyDown(key) ==
  /\ ~(ui.isLoading \/ ui.selectedIndex \in {"null", ""})
  /\ key = "Enter" /\ canSearch /\ ~ui.isLoading
  /\ handleSubmit

\* onChange of the input: setQuery(e.target.value)
setQuery(value) ==
  /\ ~(ui.isLoading \/ ui.selectedIndex \in {"null", ""})
  /\ ui' = [ui EXCEPT !.query = value]
  /\ UNCHANGED <<backendVars, seg, mcp, add, app>>

\* IndexSelector, disabled while isLoading: onIndexChange(value || null)
setSelectedIndex(value) ==
  /\ ~ui.isLoading
  /\ ui' = [ui EXCEPT !.selectedIndex = IF value = "" THEN "null" ELSE value]
  /\ UNCHANGED <<backendVars, seg, mcp, add, app>>

\* how a /query request of the frontend can settle: with a list of results,
\* or rejected with an Error (the 404 of a missing index, a network failure)
\* or with a value that is not an Error
SearchOutcomes ==
  {[kind |-> "ok", results |-> <<>>, message |-> ""],
   [kind |-> "ok", results |-> <<"r1", "r2">>, message |-> ""],
   [kind |-> "Error", results |-> <<>>, message |-> "Index not found"],
   [kind |-> "Error", results |-> <<>>, message |-> "Failed to fetch"],
   [kind |-> "thrown", results |-> <<>>, message |-> ""]}

\* the rest of handleSearch once the request settles: results and, when
\* there are none, an info notification; or the catch with its error
\* notification; finally setIsLoading(false)
QuerySettled(response) ==
  /\ ui.isLoading
  /\ ui.settles < ui.sends
  /\ ui' = IF response.kind = "ok"
           THEN [ui EXCEPT !.searchTimeMs = "ms",
                           !.results = response.results,
                           !.notification =
                              IF Len(response.results) = 0
                              THEN [type |-> "info", header |-> "No results found",
                                    content |-> "Try a different query"]
                              ELSE @,
                           !.isLoading = FALSE,
                           !.settles = @ + 1,
                           !.outcome = [kind |-> "ok", message |-> ""]]
           ELSE [ui EXCEPT !.notification =
                              [type |-> "error", header |-> "Search failed",
                               content |-> IF response.kind = "Error"
                                           THEN response.message
                                           ELSE "Unknown error"],
                           !.searchTimeMs = "null",
                           !.isLoading = FALSE,
                           !.settles = @ + 1,
                           !.outcome = [kind |-> response.kind,
                                        message |-> response.message]]
  /\ UNCHANGED <<backendVars, seg, mcp, add, app>>

UiNext ==
  \/ \E value \in QueryTexts : setQuery(value)
  \/ \E value \in Names \cup {""} : setSelectedIndex(value)
  \/ ClickSearch
  \/ \E key \in {"Enter", "q"} : handleKeyDown(key)
  \/ \E response \in SearchOutcomes : QuerySettled(response)

UiSpec == Init /\ [][UiNext]_vars

(* ---------------- frontend: AddKnowledge ---------------- *)
\* what the background task of an accepted batch has to do: for each of its
\* files the number of chunks it adds, 0 for a file that fails
WorkLoads == UNION {[1..n -> 0..1] : n \in 0..MaxFiles}

\* the background tasks process the next file
BackgroundStep ==
  /\ add.work # <<>>
  /\ add' = [add EXCEPT !.count = @ + Head(add.work), !.work = Tail(@)]
  /\ UNCHANGED <<backendVars, seg, mcp, ui, app>>

\* clearInterval(id) called by the completion of ingestion by (0: by the
\* unmount cleanup); clearInterval(null) does nothing
clearInterval(intervals, id, by) ==
  IF id = 0 \/ ~intervals[id].active THEN intervals
  ELSE [intervals EXCEPT ![id] = [active |-> FALSE, clearedBy |-> by, unmount |-> by = 0]]

\* the directory input, shown for a selected index, disabled while isEncodingBatch
setDirectoryPath(value) ==
  /\ add.mounted /\ add.selectedIndex # "null" /\ ~add.isEncodingBatch
  /\ add' = [add EXCEPT !.directoryPath = value]
  /\ UNCHANGED <<backendVars, seg, mcp, ui, app>>

\* handleShowBatchConfirm: the record count before the batch is fetched (null
\* when that fails) and the dialog opens
handleShowBatchConfirm(ok) ==
  /\ add.mounted /\ add.selectedIndex # "null"
  /\ ~(add.directoryPath = "" \/ add.isEncodingBatch)
  /\ add' = [add EXCEPT !.preProcessRecordCount = IF ok THEN add.count ELSE NullCount,
                         !.showBatchConfirmModal = TRUE]
  /\ UNCHANGED <<backendVars, seg, mcp, ui, app>>

\* Start in the confirmation dialog: the dialog closes and handleEncodeBatch
\* runs up to its await: nothing without an index or a directory, else the
\* closure variables are set and the request goes out
handleEncodeBatch ==
  /\ add.mounted
  /\ add.showBatchConfirmModal
  /\ LET initialCount == IF add.preProcessRecordCount = NullCount THEN 0
                         ELSE add.preProcessRecordCount
         j == add.started + 1
     IN IF add.selectedIndex = "null" \/ add.directoryPath = ""
        THEN add' = [add EXCEPT !.showBatchConfirmModal = FALSE]
        ELSE /\ add.started < MaxBatches
             /\ add' = [add EXCEPT
                          !.showBatchConfirmModal = FALSE,
                          !.started = j,
                          !.isEncodingBatch = TRUE,
                          !.closures[j] =
                             [NoClosure EXCEPT !.state = "starting",
                                               !.index = add.selectedIndex,
                                               !.initialCount = initialCount,
                                               !.lastCount = initialCount]]
  /\ UNCHANGED <<backendVars, seg, mcp, ui, app>>

\* the request of batch j is accepted, the backend having files to process:
\* the directory input is emptied and the polling interval is started, its
\* id stored in pollingIntervalRef
BatchAccepted(j, files) ==
  /\ add.closures[j].state = "starting"
  /\ add' = [add EXCEPT
               !.directoryPath = "",
               !.isEncodingBatch = FALSE,
               !.pollingIntervalRef = j,
               !.intervals[j] = [NoInterval EXCEPT !.active = TRUE],
               !.closures[j].state = "polling",
               !.work = @ \o files]
  /\ UNCHANGED <<backendVars, seg, mcp, ui, app>>

\* the request of batch j is rejected: an error notification, no polling
BatchRejected(j) ==
  /\ add.closures[j].state = "starting"
  /\ add' = [add EXCEPT !.isEncodingBatch = FALSE,
                         !.closures[j].state = "failed"]
  /\ UNCHANGED <<backendVars, seg, mcp, ui, app>>

\* the polls of all interval callbacks that have not answered yet
RECURSIVE InflightUpTo(_)
InflightUpTo(j) == IF j = 0 THEN 0 ELSE add.closures[j].inflight + InflightUpTo(j - 1)

Inflight == InflightUpTo(MaxBatches)

\* the interval of batch j fires: its callback requests the record count
Tick(j) ==
  /\ add.intervals[j].active
  /\ Inflight < MaxInflight
  /\ add' = [add EXCEPT !.closures[j].inflight = @ + 1]
  /\ UNCHANGED <<backendVars, seg, mcp, ui, app>>

\* the rest of an interval callback of batch j once its poll answers: a
\* count equal to lastCount and above initialCount is a stable poll, the
\* second in a row clears the interval in pollingIntervalRef and issues the
\* completion notification; any other count restarts the counting
PollSucceeds(j) ==
  /\ add.closures[j].inflight > 0
  /\ add.closures[j].completes < MaxCompletions
  /\ LET c == add.closures[j]
         record_count == add.count
         added == record_count - c.initialCount
         stable == record_count = c.lastCount /\ added > 0
         stablePolls == IF stable THEN c.stablePolls + 1 ELSE 0
         done == stable /\ stablePolls >= 2
     IN add' = [add EXCEPT
                  !.closures[j] =
                     [c EXCEPT !.inflight = @ - 1,
                               !.stablePolls = stablePolls,
                               !.lastCount = IF stable THEN @ ELSE record_count,
                               !.completes = IF done THEN @ + 1 ELSE @,
                               !.late = @ \/ c.completes > 0],
                  !.intervals = IF done
                                THEN clearInterval(@, add.pollingIntervalRef, j)
                                ELSE @,
                  !.pollingIntervalRef = IF done THEN 0 ELSE @]
  /\ UNCHANGED <<backendVars, seg, mcp, ui, app>>

\* the poll of an interval callback fails: catch, ignore
PollFails(j) ==
  /\ add.closures[j].inflight > 0
  /\ add' = [add EXCEPT !.closures[j].inflight = @ - 1]
  /\ UNCHANGED <<backendVars, seg, mcp, ui, app>>

\* AddKnowledge is unmounted: the cleanup clears the interval in
\* pollingIntervalRef, if any
Unmount ==
  /\ add.mounted
  /\ add' = [add EXCEPT !.mounted = FALSE,
                         !.intervals = clearInterval(@, add.pollingIntervalRef, 0)]
  /\ UNCHANGED <<backendVars, seg, mcp, ui, app>>

AddNext ==
  \/ \E value \in {"dir", ""} : setDirectoryPath(value)
  \/ \E ok \in BOOLEAN : handleShowBatchConfirm(ok)
  \/ handleEncodeBatch
  \/ \E j \in Ingestions, files \in WorkLoads : BatchAccepted(j, files)
  \/ \E j \in Ingestions : BatchRejected(j)
  \/ \E j \in Ingestions : Tick(j)
  \/ \E j \in Ingestions : PollSucceeds(j)
  \/ \E j \in Ingestions : PollFails(j)
  \/ BackgroundStep
  \/ Unmount

AddSpec == Init /\ [][AddNext]_vars

\* the backend finishes its work, the intervals keep firing and polls keep
\* succeeding
AddFairness ==
  /\ WF_vars(BackgroundStep)
  /\ \A j \in Ingestions : WF_vars(Tick(j)) /\ SF_vars(PollSucceeds(j))

AddFairSpec == Init /\ [][AddNext]_vars /\ AddFairness

(* ---------------- frontend: App and ManageIndexes ---------------- *)
\* the tabs of App
Tabs == {"manage-indexes", "add-knowledge", "search"}

\* hasIndexes of App
hasIndexes == app.indexCount > 0

\* what a network failure or a backend error leaves of a request: fetched
\* answers, failed rejects
CallOutcomes == {"fetched", "failed"}

\* the effect of App on [isHealthy, indexRefreshTrigger]: one more
\* listIndexes() call, none while the backend is not known to be healthy
RefreshEffect(a) ==
  IF a.isHealthy = "healthy"
  THEN [a EXCEPT !.refreshes = Append(@, [state |-> "sent", count |-> 0])]
  ELSE a

\* the requests of the page that have not settled
Pending ==
  Len(app.refreshes)
  + (IF app.isHealthy = "unknown" THEN 1 ELSE 0)
  + (IF app.creating.index # "" THEN 1 ELSE 0)
  + (IF app.confirming.index # "" THEN 1 ELSE 0)
  + (IF app.deleting.index # "" THEN 1 ELSE 0)

\* ManageIndexes leaves the page: the state of the next mount is the initial
\* one, and the requests it sent settle on a component that is gone
UnmountManageIndexes(a) ==
  [a EXCEPT !.actionMode = "create", !.isCreatingIndex = FALSE,
            !.createdIndexName = "", !.selectedIndex = "",
            !.isDeletingIndex = FALSE, !.showDeleteConfirmModal = FALSE,
            !.deleteIndexRecordCount = NullCount, !.countedIndex = "",
            !.creating.mounted = FALSE, !.confirming.mounted = FALSE,
            !.deleting.mounted = FALSE]

\* the health check of the mount settles
checkHealthSettled(outcome) ==
  /\ app.isHealthy = "unknown"
  /\ app' = IF outcome = "fetched"
            THEN RefreshEffect([app EXCEPT !.isHealthy = "healthy"])
            ELSE [app EXCEPT !.isHealthy = "unhealthy"]
  /\ UNCHANGED <<backendVars, seg, mcp, ui, add>>

\* the backend answers a listIndexes() call with the number of its indexes,
\* or the call fails
listIndexesAnswered(i, outcome) ==
  /\ i \in 1..Len(app.refreshes)
  /\ app.refreshes[i].state = "sent"
  /\ app' = [app EXCEPT !.refreshes[i] =
               IF outcome = "fetched"
               THEN [state |-> "fetched", count |-> list_indexes(db).count]
               ELSE [state |-> "failed", count |-> 0]]
  /\ UNCHANGED <<backendVars, seg, mcp, ui, add>>

\* s without its i-th element
RemoveAt(s, i) == SubSeq(s, 1, i - 1) \o SubSeq(s, i + 1, Len(s))

\* a listIndexes() call of App settles: .then sets the count of the
\* response, .catch sets 0; the responses settle in any order
listIndexesSettled(i) ==
  /\ i \in 1..Len(app.refreshes)
  /\ app.refreshes[i].state # "sent"
  /\ app' = [app EXCEPT !.indexCount = IF app.refreshes[i].state = "fetched"
                                       THEN app.refreshes[i].count ELSE 0,
                        !.refreshFailed = (app.refreshes[i].state = "failed"),
                        !.refreshes = RemoveAt(@, i)]
  /\ UNCHANGED <<backendVars, seg, mcp, ui, add>>

\* a click on a tab; a disabled tab takes no click, and the open dialog
\* covers the tabs
setActiveTab(tab) ==
  /\ tab # app.activeTab
  /\ tab = "manage-indexes" \/ hasIndexes
  /\ ~app.showDeleteConfirmModal
  /\ app' = IF app.activeTab = "manage-indexes"
            THEN [UnmountManageIndexes(app) EXCEPT !.activeTab = tab]
            ELSE [app EXCEPT !.activeTab = tab]
  /\ UNCHANGED <<backendVars, seg, mcp, ui, add>>

\* handleNavigateToAddKnowledge; the index it preselects is read by
\* AddKnowledge only
handleNavigateToAddKnowledge(indexName) ==
  [UnmountManageIndexes(app) EXCEPT !.activeTab = "add-knowledge"]

\* the 'Add Knowledge' button of the success alert
ClickAddKnowledge ==
  /\ app.activeTab = "manage-indexes"
  /\ app.actionMode = "create"
  /\ app.createdIndexName # ""
  /\ ~app.showDeleteConfirmModal
  /\ app' = handleNavigateToAddKnowledge(app.createdIndexName)
  /\ UNCHANGED <<backendVars, seg, mcp, ui, add>>

\* the two buttons under 'Choose Action'
setActionMode(mode) ==
  /\ app.activeTab = "manage-indexes"
  /\ ~app.showDeleteConfirmModal
  /\ mode = "delete" => hasIndexes
  /\ app' = [app EXCEPT !.actionMode = mode, !.createdIndexName = "",
                        !.selectedIndex = ""]
  /\ UNCHANGED <<backendVars, seg, mcp, ui, add>>

\* the Create Index button: handleCreateIndex up to its await
ClickCreateIndex(newIndexName) ==
  /\ app.activeTab = "manage-indexes"
  /\ app.actionMode = "create"
  /\ ~app.showDeleteConfirmModal
  /\ ~app.isCreatingIndex
  /\ app.creating.index = ""
  /\ Pending < MaxPending
  /\ ~(newIndexName = "" \/ ~INDEX_NAME_PATTERN(newIndexName))
  /\ app' = [app EXCEPT !.isCreatingIndex = TRUE, !.createdIndexName = "",
                        !.creating = [index |-> newIndexName, mounted |-> TRUE]]
  /\ UNCHANGED <<backendVars, seg, mcp, ui, add>>

\* the backend creates the index, or answers 409, or the request fails, and
\* handleCreateIndex goes on after its await
createIndexSettled(outcome) ==
  LET name == app.creating.index
      r == create_index(db, name)
      created == outcome = "fetched" /\ r.ret
      here == app.creating.mounted
      done == [app EXCEPT !.creating = NoCall,
                          !.isCreatingIndex = IF here THEN FALSE ELSE @,
                          !.createdIndexName = IF here /\ created THEN name ELSE @]
  IN /\ name # ""
     /\ db' = IF created THEN r.db ELSE db
     /\ app' = IF created THEN RefreshEffect(done) ELSE done
     /\ UNCHANGED <<req, resp, jobs, nextId, ops, gen, returned, seg, mcp, ui, add>>

\* IndexSelector of the delete mode: the user picks one of the listed indexes
setSelectedIndex_manage(value) ==
  /\ app.activeTab = "manage-indexes"
  /\ app.actionMode = "delete"
  /\ ~app.showDeleteConfirmModal
  /\ ~app.isDeletingIndex
  /\ value \in table_names(db)
  /\ value # app.selectedIndex
  /\ app' = [app EXCEPT !.selectedIndex = value]
  /\ UNCHANGED <<backendVars, seg, mcp, ui, add>>

\* handleShowDeleteConfirm up to its await
handleShowDeleteConfirm ==
  /\ app.activeTab = "manage-indexes"
  /\ app.actionMode = "delete"
  /\ ~app.showDeleteConfirmModal
  /\ app.selectedIndex # "" /\ ~app.isDeletingIndex
  /\ app.confirming.index = ""
  /\ Pending < MaxPending
  /\ app' = [app EXCEPT !.confirming = [index |-> app.selectedIndex, mounted |-> TRUE]]
  /\ UNCHANGED <<backendVars, seg, mcp, ui, add>>

\* getIndexRecordCount settles and handleShowDeleteConfirm opens the dialog
recordCountSettled(outcome) ==
  LET name == app.confirming.index
      count == count_rows(db, name)
  IN /\ name # ""
     /\ app' = IF app.confirming.mounted
               THEN [app EXCEPT !.confirming = NoCall,
                                !.countedIndex = name,
                                !.deleteIndexRecordCount =
                                   IF outcome = "fetched" /\ count.err = "none"
                                   THEN count.ret ELSE NullCount,
                                !.showDeleteConfirmModal = TRUE]
               ELSE [app EXCEPT !.confirming = NoCall]
     /\ UNCHANGED <<backendVars, seg, mcp, ui, add>>

\* Cancel of the dialog
CancelDelete ==
  /\ app.showDeleteConfirmModal
  /\ app' = [app EXCEPT !.showDeleteConfirmModal = FALSE, !.countedIndex = ""]
  /\ UNCHANGED <<backendVars, seg, mcp, ui, add>>

\* handleDeleteIndex that deletes the index whose record count was fetched
handleDeleteIndex_counted ==
  IF app.countedIndex = "" THEN app
  ELSE [app EXCEPT !.isDeletingIndex = TRUE, !.showDeleteConfirmModal = FALSE,
                   !.countedIndex = "",
                   !.deleting = [index |-> app.countedIndex, mounted |-> TRUE]]

\* handleDeleteIndex up to its await
handleDeleteIndex ==
  IF app.selectedIndex = "" THEN app
  ELSE [app EXCEPT !.isDeletingIndex = TRUE, !.showDeleteConfirmModal = FALSE,
                   !.countedIndex = "",
                   !.deleting = [index |-> app.selectedIndex, mounted |-> TRUE]]

\* the Delete Index button of the dialog
ClickDelete ==
  /\ app.showDeleteConfirmModal
  /\ app.deleting.index = ""
  /\ Pending < MaxPending
  /\ app' = handleDeleteIndex
  /\ UNCHANGED <<backendVars, seg, mcp, ui, add>>

\* the backend drops the index, or the request fails, and handleDeleteIndex
\* goes on after its await
deleteIndexSettled(outcome) ==
  LET name == app.deleting.index
      r == delete_index(db, name)
      deleted == outcome = "fetched" /\ r.err = "none"
      here == app.deleting.mounted
      done == [app EXCEPT !.deleting = NoCall,
                          !.isDeletingIndex = IF here THEN FALSE ELSE @,
                          !.selectedIndex = IF here /\ deleted THEN "" ELSE @,
                          !.actionMode = IF here /\ deleted THEN "create" ELSE @]
  IN /\ name # ""
     /\ db' = IF deleted THEN r.db ELSE db
     /\ app' = IF deleted THEN RefreshEffect(done) ELSE done
     /\ UNCHANGED <<req, resp, jobs, nextId, ops, gen, returned, seg, mcp, ui, add>>

AppNext ==
  \/ \E outcome \in CallOutcomes : checkHealthSettled(outcome)
  \/ \E i \in 1..MaxPending, outcome \in CallOutcomes : listIndexesAnswered(i, outcome)
  \/ \E i \in 1..MaxPending : listIndexesSettled(i)
  \/ \E tab \in Tabs : setActiveTab(tab)
  \/ ClickAddKnowledge
  \/ \E mode \in {"create", "delete"} : setActionMode(mode)
  \/ \E n \in CreateNames : ClickCreateIndex(n)
  \/ \E outcome \in CallOutcomes : createIndexSettled(outcome)
  \/ \E n \in Names : setSelectedIndex_manage(n)
  \/ handleShowDeleteConfirm
  \/ \E outcome \in CallOutcomes : recordCountSettled(outcome)
  \/ CancelDelete
  \/ ClickDelete
  \/ \E outcome \in CallOutcomes : deleteIndexSettled(outcome)

AppSpec == Init /\ [][AppNext]_vars

(* ---------------- the segmenter on its own ---------------- *)
\* a text and a budget are given to the segmenter
SegInit ==
  /\ BackendInit
  /\ mcp = McpStart
  /\ ui = UiStart
  /\ add = AddStart
  /\ app = AppStart
  /\ seg \in {[text |-> t, max_tokens |-> b, chunks |-> <<>>, done |-> FALSE] :
                t \in Texts, b \in Budgets}

\* the segmenter runs on its input
Segment ==
  /\ ~seg.done
  /\ seg' = [seg EXCEPT !.chunks = chunk_text(seg.text, seg.max_tokens),
                        !.done = TRUE]
  /\ UNCHANGED <<backendVars, mcp, ui, add, app>>

SegNext == Segment

SegSpec == SegInit /\ [][SegNext]_vars

(* ---------------- claims ---------------- *)
\* the chunks the single-document flow makes of a readable document
ChunksOf(path) == chunk(read_document(path).text)

Readable(path) == read_document(path).err = "none"

\* C1: create(n) on a name that already exists fails with Conflict and leaves
\* every collection, with its records, exactly as it was.
C1_CreateExistingIsConflict ==
  [][\A p \in Procs, n \in Names :
       (CreateIndex(p, n) /\ n \in DOMAIN db)
         => (resp'.op = "create" /\ resp'.status = "Conflict" /\ db' = db)]_vars

\* a create was refused on a collection that holds records
C1_Witness ==
  /\ resp.op = "create" /\ resp.status = "Conflict"
  /\ resp.index \in DOMAIN db /\ Len(db[resp.index]) > 0

\* C2: however encode_document calls (and batch documents) on a collection
\* interleave, the collection's record count is the sum of the chunk counts
\* returned since it was created, and a call on a readable document whose
\* collection existed at its check and still is that collection succeeds
\* with the chunk count of its document.
C2_ConcurrentAddsSumUp ==
  /\ \A n \in DOMAIN db : Len(db[n]) = returned[n]
  /\ (/\ resp.op = "encode_doc" /\ resp.existed /\ Readable(resp.arg)
      /\ resp.index \in DOMAIN db /\ gen[resp.index] = resp.seen)
       => (/\ resp.status = "success"
           /\ resp.count = Len(ChunksOf(resp.arg))
           /\ Len(db[resp.index]) >= resp.before + resp.count)

\* an encode_document call succeeded although another call added records to
\* the same collection between its check and its add
C2_Witness ==
  /\ resp.op = "encode_doc" /\ resp.status = "success" /\ jobs = <<>>
  /\ resp.index \in DOMAIN db /\ gen[resp.index] = resp.seen
  /\ Len(db[resp.index]) > resp.before + resp.count
  /\ Len(db[resp.index]) = returned[resp.index]

\* the rows of new are the rows of old followed by one row per chunk of path
AppendedWhole(old, new, path) ==
  /\ Len(new) = Len(old) + Len(ChunksOf(path))
  /\ SubSeq(new, 1, Len(old)) = old
  /\ \A i \in 1..Len(ChunksOf(path)) :
       /\ new[Len(old) + i].content = ChunksOf(path)[i]
       /\ new[Len(old) + i].source_document = path

\* C3: add is all-or-nothing: a step changes a collection only by appending
\* the whole batch of one call, which then reports len(records); a call that
\* fails leaves every collection unchanged.
C3_AddAllOrNothing ==
  [][/\ \A n \in DOMAIN db \cap DOMAIN db' :
          \/ db'[n] = db[n]
          \/ \E p \in Procs :
               /\ EncodeDocIngest(p) /\ req[p].index = n
               /\ AppendedWhole(db[n], db'[n], req[p].arg)
               /\ resp'.status = "success"
               /\ resp'.count = Len(ChunksOf(req[p].arg))
          \/ \E j \in 1..Len(jobs) :
               /\ BatchProcessNext(j) /\ jobs[j].index = n
               /\ AppendedWhole(db[n], db'[n], Head(jobs[j].queue))
               /\ jobs'[j].succeeded = jobs[j].succeeded + 1
     /\ \A p \in Procs :
          (EncodeDocIngest(p) /\ resp'.status # "success") => db' = db
     /\ \A j \in 1..Len(jobs) :
          (BatchProcessNext(j) /\ jobs'[j].failed # jobs[j].failed) => db' = db]_vars

\* a call stored a batch of several records
C3_Witness ==
  /\ resp.op = "encode_doc" /\ resp.status = "success" /\ resp.count > 1
  /\ resp.index \in DOMAIN db
  /\ Len(db[resp.index]) >= resp.count
  /\ db[resp.index][Len(db[resp.index])].source_document = resp.arg

\* C4: on a name that does not exist, count, delete, add and search fail
\* with NotFound and leave the collections and their records unchanged.
C4_MissingNameIsNotFound ==
  [][/\ \A p \in Procs, n \in Names \ DOMAIN db :
          (IndexRecordCount(p, n) \/ DeleteIndex(p, n))
            => (resp'.status = "NotFound" /\ resp'.index = n /\ db' = db)
     /\ \A p \in Procs :
          (/\ req[p].index \notin DOMAIN db /\ Readable(req[p].arg)
           /\ EncodeDocIngest(p))
            => (resp'.status = "NotFound" /\ resp'.detail = "index" /\ db' = db)
     /\ \A p \in Procs :
          (req[p].index \notin DOMAIN db /\ QuerySearch(p))
            => (resp'.status = "NotFound" /\ resp'.results = <<>> /\ db' = db)]_vars

\* the search of a query met a collection that was deleted after the query's check
C4_Witness ==
  /\ resp.op = "query" /\ resp.status = "NotFound" /\ resp.existed
  /\ resp.index \notin DOMAIN db /\ "embed" \in resp.work

\* C5: after a successful delete(name) the name does not exist, is not
\* listed, count(name) fails with NotFound, the other collections are
\* untouched, and create(name) succeeds; a successful create yields a
\* collection with zero records.
C5_DeleteThenRecreateIsEmpty ==
  [][\A p \in Procs, n \in Names :
       /\ (DeleteIndex(p, n) /\ resp'.status = "deleted")
            => (/\ ~index_exists(db', n)
                /\ n \notin list_indexes(db').indexes
                /\ count_rows(db', n).err = "NotFound"
                /\ create_index(db', n).ret
                /\ create_index(db', n).db[n] = <<>>
                /\ \A m \in DOMAIN db \ {n} : m \in DOMAIN db' /\ db'[m] = db[m])
       /\ (CreateIndex(p, n) /\ resp'.status = "created")
            => (n \in DOMAIN db' /\ db'[n] = <<>>)]_vars

\* a collection was deleted and created again, empty
C5_Witness ==
  /\ resp.op = "create" /\ resp.status = "created"
  /\ gen[resp.index] = 2 /\ db[resp.index] = <<>>
  /\ \A m \in Names \ {resp.index} : gen[m] = 0


\* C6: the results of a query are in non-increasing relevance_score order
\* and there are at most top_k of them.
C6_ResultsSortedAndTruncated ==
  (resp.op = "query" /\ resp.status = "success")
    => (/\ Len(resp.results) <= resp.top_k
        /\ Len(resp.results) <= resp.candidates
        /\ \A i \in 1..Len(resp.results) : \A j \in i..Len(resp.results) :
             resp.results[i].relevance_score >= resp.results[j].relevance_score)

\* a query cut its candidates down to top_k results of different scores
C6_Witness ==
  /\ resp.op = "query" /\ resp.status = "success"
  /\ resp.candidates > resp.top_k /\ Len(resp.results) = resp.top_k
  /\ resp.top_k > 1
  /\ resp.results[1].relevance_score > resp.results[2].relevance_score

C8_CandidateLimitExceedsTopK ==
  (resp.op = "query" /\ resp.limit > 0) => resp.limit > resp.top_k

\* C9: a query, encode_document or encode_batch request whose collection did
\* not exist at its check ends in NotFound, with no document read, no
\* embedding, no reranking, no directory listing and no store write done.
C9_MissingIndexFailsFirst ==
  (resp.op \in {"query", "encode_doc", "encode_batch"} /\ ~resp.existed)
    => (/\ resp.status = "NotFound" /\ resp.detail = "index"
        /\ resp.work = {}
        /\ resp.index \notin DOMAIN db)

\* an encode_batch request named a collection that does not exist
C9_Witness ==
  /\ resp.op = "encode_batch" /\ ~resp.existed /\ resp.status = "NotFound"
  /\ resp.arg = "dir" /\ DOMAIN db # {}

\* rows of a table that come from the files of the batch directory
RECURSIVE CountDirRows(_)
CountDirRows(rows) ==
  IF rows = <<>> THEN 0
  ELSE (IF \E i \in 1..Len(DirFiles) : Head(rows).source_document = DirFiles[i]
        THEN 1 ELSE 0) + CountDirRows(Tail(rows))

\* sum of a field over the jobs on index n
RECURSIVE SumJobChunks(_, _)
SumJobChunks(js, n) ==
  IF js = <<>> THEN 0
  ELSE (IF Head(js).index = n THEN Head(js).chunks ELSE 0) + SumJobChunks(Tail(js), n)

\* chunks of the readable files among fs
RECURSIVE ReadableChunks(_)
ReadableChunks(fs) ==
  IF fs = <<>> THEN 0
  ELSE (IF Readable(Head(fs)) THEN Len(ChunksOf(Head(fs))) ELSE 0) + ReadableChunks(Tail(fs))

JobFinished(j) == j <= Len(jobs) /\ jobs[j].queue = <<>>

\* the collection of job j has existed, as the same collection, since the
\* job was accepted
JobIndexAlive(j) == jobs[j].index \in DOMAIN db /\ gen[jobs[j].index] = jobs[j].seen

\* C10: every queued document of a batch is eventually attempted, a failing
\* document neither stops nor rolls back the others, and a collection that
\* lived through its batches holds exactly the chunks of the documents that
\* succeeded: all the readable files' chunks once the batch has finished.
C10_BatchFailuresIsolated ==
  /\ [](\A j \in 1..Len(jobs) :
          /\ jobs[j].succeeded + jobs[j].failed + Len(jobs[j].queue) = jobs[j].queued
          /\ (\A i \in 1..Len(jobs) : jobs[i].index = jobs[j].index => JobIndexAlive(i))
               => CountDirRows(db[jobs[j].index]) = SumJobChunks(jobs, jobs[j].index)
          /\ (JobFinished(j) /\ JobIndexAlive(j))
               => (/\ jobs[j].failed = 1
                   /\ jobs[j].succeeded = jobs[j].queued - 1
                   /\ jobs[j].chunks = ReadableChunks(DirFiles)))
  /\ \A j \in 1..MaxJobs : (j <= Len(jobs)) ~> JobFinished(j)

\* a batch finished: its second document failed, its third was stored
C10_Witness ==
  /\ JobFinished(1) /\ JobIndexAlive(1)
  /\ jobs[1].failed = 1 /\ jobs[1].succeeded = 2
  /\ CountDirRows(db[jobs[1].index]) = 3
  /\ db[jobs[1].index][Len(db[jobs[1].index])].source_document = "dir/b.md"

\* C11: encode_batch on an existing collection and directory answers
\* "accepted" with the number of files enumerated as documents_queued, before
\* any of the documents is processed, and no later document outcome changes
\* or replaces that response.
C11_BatchAcceptedAtOnce ==
  [][/\ \A p \in Procs, dir \in Dirs, n \in DOMAIN db :
          (list_files(dir).err = "none" /\ EncodeBatch(p, dir, n))
            => (/\ resp'.op = "encode_batch" /\ resp'.status = "accepted"
                /\ resp'.detail = ""
                /\ resp'.count = Len(list_files(dir).files)
                /\ Len(jobs') = Len(jobs) + 1
                /\ jobs'[Len(jobs')].queue = list_files(dir).files
                /\ jobs'[Len(jobs')].succeeded = 0
                /\ jobs'[Len(jobs')].failed = 0
                /\ db' = db)
     /\ \A j \in 1..Len(jobs) : BatchProcessNext(j) => resp' = resp]_vars

\* the accepted response of a batch still stands after one of its documents
\* failed and the batch finished
C11_Witness ==
  /\ resp.op = "encode_batch" /\ resp.status = "accepted"
  /\ resp.count = Len(DirFiles)
  /\ Len(jobs) = 1 /\ jobs[1].queue = <<>> /\ jobs[1].failed > 0

\* C12: in every reachable state the ids of all the records of all the
\* collections are pairwise distinct, whatever the interleaving of the add
\* calls and the deletions and re-creations before them.
C12_RecordIdsDistinct ==
  \A n \in DOMAIN db, m \in DOMAIN db :
    \A i \in 1..Len(db[n]), j \in 1..Len(db[m]) :
      (n # m \/ i # j) => db[n][i].id # db[m][j].id

\* a single-document add landed between the documents of a running batch on
\* the same collection
C12_Witness ==
  \E n \in DOMAIN db :
    /\ Len(db[n]) >= 5
    /\ \E i \in 2..(Len(db[n]) - 1) :
         /\ db[n][i].source_document = "a.md"
         /\ db[n][1].source_document = "dir/a.md"
         /\ db[n][Len(db[n])].source_document = "dir/b.md"

OthersUntouched(n) ==
  \A m \in DOMAIN db \ {n} : m \in DOMAIN db' /\ db'[m] = db[m]

\* C14: create, add and delete on one collection leave the records (and so
\* the count) of every other collection unchanged, and every result of a
\* query against an index is a record held by that index when it was
\* searched.
C14_CollectionsIsolated ==
  [][/\ \A p \in Procs, n \in Names :
          (CreateIndex(p, n) \/ DeleteIndex(p, n)) => OthersUntouched(n)
     /\ \A p \in Procs : EncodeDocIngest(p) => OthersUntouched(req[p].index)
     /\ \A j \in 1..Len(jobs) : BatchProcessNext(j) => OthersUntouched(jobs[j].index)
     /\ \A p \in Procs :
          (req[p].pc = "search" /\ req'[p].pc = "idle")
            => (/\ resp'.op = "query" /\ resp'.index = req[p].index
                /\ db' = db
                /\ \A i \in 1..Len(resp'.results) :
                     /\ req[p].index \in DOMAIN db
                     /\ \E k \in 1..Len(db[req[p].index]) :
                          /\ db[req[p].index][k].id = resp'.results[i].id
                          /\ db[req[p].index][k].content = resp'.results[i].content
                          /\ db[req[p].index][k].source_document
                               = resp'.results[i].source_document)]_vars

\* a document was added to one of two collections
C14_Witness ==
  /\ resp.op = "encode_doc" /\ resp.status = "success"
  /\ DOMAIN db = Names
  /\ Len(db[resp.index]) > 0
  /\ \A m \in Names \ {resp.index} : db[m] = <<>>

\* the name starts with a letter and goes on with letters, digits, "_" or "-"
NameOk(name) ==
  /\ Len(Chars(name)) >= 1
  /\ Chars(name)[1] \in Letters
  /\ \A i \in 2..Len(Chars(name)) :
       Chars(name)[i] \in Letters
         \cup {"0", "1", "2", "3", "4", "5", "6", "7", "8", "9"} \cup {"_", "-"}

\* C15: every existing collection's name matches ^[a-zA-Z][a-zA-Z0-9_-]*$:
\* a create request with a non-matching name is answered InvalidName and
\* creates nothing, and the frontend's create handler sends no create request
\* for an empty or non-matching name.
C15_NamesMatchPattern ==
  [][/\ \A n \in DOMAIN db' : NameOk(n)
     /\ \A p \in Procs, n \in CreateNames :
          (~NameOk(n) /\ CreateIndex(p, n))
            => (/\ resp'.op = "create" /\ resp'.status = "InvalidName"
                /\ db' = db)
     /\ \A p \in Procs, n \in CreateNames :
          ((n = "" \/ ~NameOk(n)) /\ handleCreateIndex(p, n))
            => (resp'.op # "create" /\ resp'.status = "not_sent" /\ db' = db)]_vars

\* a create request for a name with a space in it was rejected while a
\* collection exists
C15_Witness ==
  /\ resp.op = "create" /\ resp.status = "InvalidName" /\ resp.index = "a b"
  /\ DOMAIN db # {} /\ "a b" \notin DOMAIN db

\* the chunk has no whitespace inside: a single indivisible unit
IsAtom(c) == \A i \in 1..Len(c) : c[i] \notin Whitespace

RECURSIVE StripWhitespace(_)
StripWhitespace(cs) ==
  IF cs = <<>> THEN <<>>
  ELSE (IF Head(cs) \in Whitespace THEN <<>> ELSE <<Head(cs)>>)
         \o StripWhitespace(Tail(cs))

\* the texts of a sequence, one after the other
RECURSIVE Concat(_)
Concat(texts) ==
  IF texts = <<>> THEN <<>> ELSE Head(texts) \o Concat(Tail(texts))

\* C17: the chunk texts concatenated in output order are the source text up
\* to separator whitespace: the same non-whitespace characters in the same
\* order, none missing, duplicated or moved.
C17_ChunksPreserveContent ==
  seg.done => StripWhitespace(Concat(seg.chunks)) = StripWhitespace(seg.text)

\* a text of two lines with a sentence end was cut into several chunks, one
\* of them merged from two units
C17_Witness ==
  /\ seg.done /\ Len(seg.chunks) >= 2
  /\ \E i \in 1..Len(seg.text) : seg.text[i] = "\n"
  /\ \E i \in 1..Len(seg.text) : seg.text[i] = "."
  /\ \E i \in 1..Len(seg.chunks) : ~IsAtom(seg.chunks[i])

\* C18: kb_fetch_doc returns every chunk of the requested document when the
\* index holds at most top_k chunks of it.  (The code runs a semantic query
\* limited to top_k over the whole index and filters afterwards, so chunks of
\* other documents take places in the top_k.)
C18_FetchReturnsAllChunks ==
  (mcp.tool = "kb_fetch_doc" /\ mcp.alive /\ ~mcp.isError
     /\ Cardinality(mcp.held) <= mcp.top_k)
    => mcp.held \subseteq mcp.got

\* C19: a tool call that meets a backend failure (no answer, a non-2xx answer,
\* a body that does not parse) ends in a tool result with isError and a
\* message, and no rejection leaves a handler: the server stays up and
\* answers the calls that follow
C19_BackendFailureBecomesToolError ==
  /\ mcp.alive
  /\ (mcp.tool # "none" /\ (mcp.status \notin 200..299 \/ ~mcp.json))
       => (mcp.isError /\ mcp.text # "" /\ mcp.message # "")

\* a tool call answered with a result after an earlier call had failed
C19_Witness ==
  /\ mcp.failed
  /\ mcp.alive
  /\ mcp.tool # "none"
  /\ ~mcp.isError
  /\ mcp.status = 200

\* a text without whitespace at either end
Trimmed(cs) == cs = <<>> \/ (Head(cs) \notin Whitespace /\ cs[Len(cs)] \notin Whitespace)

\* typed is text with only whitespace before and after it
Surrounds(typed, text) ==
  \E a \in 0..Len(typed) :
    /\ a + Len(text) <= Len(typed)
    /\ SubSeq(typed, a + 1, a + Len(text)) = text
    /\ \A i \in (1..a) \cup ((a + Len(text) + 1)..Len(typed)) : typed[i] \in Whitespace

\* C20: a /query request of the frontend carries a non-empty query that is
\* the content of the input without its surrounding whitespace, the name of
\* a selected index, and top_k 5
C20_FrontendQueryRequest ==
  ui.sends > 0 =>
    /\ ui.request.query # <<>>
    /\ Trimmed(ui.request.query)
    /\ Surrounds(ui.request.typed, ui.request.query)
    /\ ui.request.index_name \in Names
    /\ ui.request.top_k = 5

\* a request went out for an input with whitespace around the query
C20_Witness ==
  /\ ui.sends > 0
  /\ ui.isLoading
  /\ ui.request.typed # ui.request.query

\* C21: once every search sent has settled isLoading is false; when the last
\* one failed the notification shown is the error "Search failed" with the
\* message of the error and the result list is empty
C21_FailedSearchIsReported ==
  (ui.sends > 0 /\ ui.settles = ui.sends) =>
    /\ ~ui.isLoading
    /\ (ui.outcome.kind # "ok") =>
         /\ ui.notification.type = "error"
         /\ ui.notification.content =
              (IF ui.outcome.kind = "Error" THEN ui.outcome.message ELSE "Unknown error")
         /\ ui.notification.content # ""
         /\ ui.results = <<>>

\* two searches have settled, the second one failed with 404
C21_Witness ==
  /\ ui.sends = 2
  /\ ui.settles = 2
  /\ ui.outcome = [kind |-> "Error", message |-> "Index not found"]

\* C22: once the first batch is accepted its polling stops and its completion
\* notification is issued, whatever the batch added, while the page stays
\* mounted and no other batch is started.  (A batch that adds no chunk never
\* has added > 0, so no poll counts as stable and the polling goes on.)
C22_PollingEventuallyCompletes ==
  (add.closures[1].state = "polling")
    ~> \/ add.closures[1].completes > 0 /\ ~add.intervals[1].active
       \/ ~add.mounted
       \/ add.started > 1

\* C23: a batch issues its completion notification at most once and
\* processes no poll result after it.  (A callback whose poll was in flight
\* when the interval was cleared still runs, finds the count stable and
\* issues the notification again.)
C23_CompletesOnce ==
  \A j \in Ingestions :
    add.closures[j].completes <= 1 /\ ~add.closures[j].late

\* C24: an interval is cleared by the completion of its own batch or by the
\* unmount.  (There is one pollingIntervalRef: a second batch overwrites it,
\* and the completion of the first then clears the interval of the second.)
C24_ClearsOwnInterval ==
  \A j \in Ingestions : add.intervals[j].clearedBy \in {0, j}

\* s is t with some of its elements left out, the others in their order
RECURSIVE IsSubsequence(_, _)
IsSubsequence(s, t) ==
  IF s = <<>> THEN TRUE
  ELSE IF t = <<>> THEN FALSE
  ELSE IF Head(s) = Head(t) THEN IsSubsequence(Tail(s), Tail(t))
  ELSE IsSubsequence(s, Tail(t))

\* C25: the chunks kb_fetch_doc returns are results of the backend in the
\* backend's order, each from a document whose name contains the requested
\* name case-insensitively; total_chunks is their number, which is at most
\* the number of results, itself at most top_k
C25_FetchedChunksMatch ==
  (mcp.tool = "kb_fetch_doc" /\ mcp.alive /\ ~mcp.isError) =>
    /\ IsSubsequence(mcp.chunks, mcp.results)
    /\ \A i \in 1..Len(mcp.chunks) :
         includes(toLowerCase(Chars(mcp.chunks[i].source_document)),
                  toLowerCase(Chars(mcp.asked)))
    /\ mcp.total = Len(mcp.chunks)
    /\ Len(mcp.chunks) <= Len(mcp.results)
    /\ Len(mcp.results) <= mcp.top_k

\* a fetch by a name in another case returned chunks and left a result of
\* another document out
C25_Witness ==
  /\ mcp.tool = "kb_fetch_doc" /\ mcp.alive /\ ~mcp.isError
  /\ mcp.asked = "A.MD"
  /\ Len(mcp.chunks) > 0
  /\ Len(mcp.chunks) < Len(mcp.results)

\* C26: a delete request of the frontend goes out only in a step taken from
\* the open confirmation dialog, by its Delete button, and it names the
\* index the dialog shows; from a dialog that shows no index none goes out
C26_DeleteOnlyFromDialog ==
  [][(app.deleting.index = "" /\ app'.deleting.index # "") =>
       /\ app.showDeleteConfirmModal
       /\ app.selectedIndex # ""
       /\ app'.deleting.index = app.selectedIndex
       /\ ~app'.showDeleteConfirmModal]_vars

\* a delete request is on its way to the backend for an index that exists
C26_Witness ==
  /\ app.deleting.index \in table_names(db)
  /\ app.isDeletingIndex
  /\ ~app.showDeleteConfirmModal

\* the dialog is open and names no index: the selection was cleared while
\* the record count was being fetched
C26_WitnessNoIndex ==
  /\ app.showDeleteConfirmModal
  /\ app.selectedIndex = ""
  /\ app.countedIndex # ""
  /\ app.deleting.index = ""

\* C27: the active tab is never a disabled tab
C27_ActiveTabEnabled ==
  app.activeTab \in {"add-knowledge", "search"} => hasIndexes

\* no request of the page is in flight
Quiet == Pending = 0

\* C28: when no request is in flight and the last refresh did not fail, the
\* index count shown is the number of indexes of the backend
C28_CountMatchesBackend ==
  (Quiet /\ app.isHealthy = "healthy" /\ ~app.refreshFailed) =>
    app.indexCount = list_indexes(db).count

=============================================================================
